---- MODULE Spec2Model ----
(***************************************************************************)
(* dynamic_overload: overload registries, scoring, conflict detection and  *)
(* the two dispatchers of src/src/dynamic_overload/overload.py.            *)
(*                                                                         *)
(* Runtime values are abstracted to the tag of their class.  A type hint   *)
(* is a record: absent (Parameter.empty), Any, a class, a parameterized    *)
(* generic (it has __origin__) or an X | Y union (types.UnionType).        *)
(* A signature is a sequence of parameters: plain positional-or-keyword    *)
(* parameters, then at most one *args, then at most one **kwargs.          *)
(***************************************************************************)
EXTENDS Integers, Sequences, FiniteSets, TLC

\* ------------------------------------------------------------------ bounds
MaxRegs == 2        \* registrations per run of a registration surface
MaxArgs == 2        \* positional arguments of one call
MaxDepth == 3       \* nested bound dispatcher frames before the interpreter gives up

\* ------------------------------------------------------------------ values
Vals == {"int", "str", "list"}
KwNames == {"y"}
NoDefault == "<empty>"

\* isinstance(arg, cls) on class tags
IsInstance(arg, cls) == arg = cls

\* ------------------------------------------------------------------- hints
Hint(kind, t, p, args) == [kind |-> kind, t |-> t, p |-> p, args |-> args]
Empty == Hint("empty", "", "", <<>>)
AnyHint == Hint("any", "", "", <<>>)
Cls(t) == Hint("class", t, "", <<>>)
Gen(t, p) == Hint("generic", t, p, <<>>)
Uni(args) == Hint("union", "", "", args)

\* hint.__origin__ when the hint has one (List[int] -> List)
Erase(hint) == IF hint.kind = "generic" THEN Cls(hint.t) ELSE hint

\* a wildcard constraint: no annotation, or Any
IsWildcard(hint) == hint.kind \in {"empty", "any"}

\* -------------------------------------------------------------- parameters
Param(name, kind, annotation, default) ==
    [name |-> name, kind |-> kind, annotation |-> annotation, default |-> default]
P(name, annotation) == Param(name, "pos", annotation, NoDefault)
PD(name, annotation, default) == Param(name, "pos", annotation, default)
VarPos(name, annotation) == Param(name, "varpos", annotation, NoDefault)
VarKw(name, annotation) == Param(name, "varkw", annotation, NoDefault)

HasDefault(param) == param.default # NoDefault

\* a callable: its identity, its names, its signature, what its body does
Func(id, module, qualname, sig, body) ==
    [id |-> id, module |-> module, qualname |-> qualname, sig |-> sig, body |-> body]

\* ------------------------------------------------------------------ scoring
RECURSIVE score_type_hint(_, _), AnyPositive(_, _, _)
\* the loop of _score_type_hint over hint.__args__, from member i on
AnyPositive(arg, args, i) ==
    IF i > Len(args) THEN FALSE
    ELSE IF score_type_hint(arg, args[i]) > 0 THEN TRUE
    ELSE AnyPositive(arg, args, i + 1)

score_type_hint(arg, hint0) ==
    LET hint == Erase(hint0)
    IN IF IsWildcard(hint) THEN 0
       ELSE IF hint.kind = "union"
            THEN (IF AnyPositive(arg, hint.args, 1) THEN 1 ELSE -1)
            ELSE IF IsInstance(arg, hint.t) THEN 1 ELSE -1

RECURSIVE SumScores(_, _, _)
\* sum(_score_type_hint(a, hint) for a in values), from value i on
SumScores(values, hint, i) ==
    IF i > Len(values) THEN 0
    ELSE score_type_hint(values[i], hint) + SumScores(values, hint, i + 1)

\* arg is the sequence of values bound to param: one value for a plain
\* parameter, the collected extras for *args and **kwargs
score_any_type_hint(arg, param) ==
    IF param.kind = "varpos" THEN SumScores(arg, param.annotation, 1)
    ELSE IF param.kind = "varkw" THEN SumScores(arg, param.annotation, 1)
    ELSE score_type_hint(arg[1], param.annotation)

RECURSIVE MatchFrom(_, _, _, _)
\* the loop of _signature_matches from parameter i on, score so far
MatchFrom(sig, bound_args, i, score) ==
    IF i > Len(sig) THEN score
    ELSE LET partial_score == score_any_type_hint(bound_args[i], sig[i])
         IN IF partial_score < 0 THEN -1
            ELSE MatchFrom(sig, bound_args, i + 1, score + partial_score)

signature_matches_flag(sig, bound_args) ==
    IF MatchFrom(sig, bound_args, 1, 0) < 0 THEN -1 ELSE 0

signature_matches(sig, bound_args) == MatchFrom(sig, bound_args, 1, 0)

\* ------------------------------------------------------------------ binding
PlainNames(sig) == {sig[i].name : i \in {j \in 1..Len(sig) : sig[j].kind = "pos"}}
NumPlain(sig) == Cardinality({j \in 1..Len(sig) : sig[j].kind = "pos"})
HasKind(sig, kind) == \E j \in 1..Len(sig) : sig[j].kind = kind

RECURSIVE SetToSeq(_)
SetToSeq(S) == IF S = {} THEN <<>>
               ELSE LET e == CHOOSE e \in S : TRUE IN <<e>> \o SetToSeq(S \ {e})

\* the values of the keywords no plain parameter takes, as **kwargs collects them
ExtraKw(sig, kwargs) ==
    LET names == SetToSeq(DOMAIN kwargs \ PlainNames(sig))
    IN [i \in 1..Len(names) |-> kwargs[names[i]]]

\* Signature.bind raises TypeError: too many positionals, a parameter given
\* twice, a required parameter missing, or an unexpected keyword
BindFails(sig, args, kwargs) ==
    LET np == NumPlain(sig)
    IN \/ Len(args) > np /\ ~HasKind(sig, "varpos")
       \/ \E i \in 1..np : i <= Len(args) /\ sig[i].name \in DOMAIN kwargs
       \/ \E i \in 1..np : /\ i > Len(args)
                           /\ sig[i].name \notin DOMAIN kwargs
                           /\ ~HasDefault(sig[i])
       \/ ~HasKind(sig, "varkw") /\ DOMAIN kwargs \ PlainNames(sig) # {}

\* BoundArguments.arguments after apply_defaults, by parameter position
BoundArgs(sig, args, kwargs) ==
    LET np == NumPlain(sig)
    IN [i \in 1..Len(sig) |->
          IF sig[i].kind = "varpos"
          THEN (IF Len(args) > np THEN SubSeq(args, np + 1, Len(args)) ELSE <<>>)
          ELSE IF sig[i].kind = "varkw" THEN ExtraKw(sig, kwargs)
          ELSE IF i <= Len(args) THEN <<args[i]>>
          ELSE IF sig[i].name \in DOMAIN kwargs THEN <<kwargs[sig[i].name]>>
          ELSE <<sig[i].default>>]

\* --------------------------------------------------------------- best_match
\* score of one candidate for one call: -2 when binding fails (the loop
\* continues without scoring), else what _signature_matches returns
CandidateScore(sig, args, kwargs) ==
    IF BindFails(sig, args, kwargs) THEN -2
    ELSE signature_matches(sig, BoundArgs(sig, args, kwargs))

BetterOrEqual(score, best_score) == score >= best_score

\* the comparison that replaces the best candidate so far
Better(score, best_score) == score > best_score

RECURSIVE BestFrom(_, _, _, _, _, _)
\* the loop of best_match from candidate i on; best_func is the position of
\* the best candidate so far in overload_list, 0 for None
BestFrom(signatures, args, kwargs, i, best_score, best_func) ==
    IF i > Len(signatures) THEN best_func
    ELSE IF BindFails(signatures[i], args, kwargs)
         THEN BestFrom(signatures, args, kwargs, i + 1, best_score, best_func)
         ELSE LET score == signature_matches(signatures[i],
                                             BoundArgs(signatures[i], args, kwargs))
              IN IF Better(score, best_score)
                 THEN BestFrom(signatures, args, kwargs, i + 1, score, i)
                 ELSE BestFrom(signatures, args, kwargs, i + 1, best_score, best_func)

FunctionBestMatchFromZero(signatures, args, kwargs) ==
    BestFrom(signatures, args, kwargs, 1, 0, 0)

\* FunctionOverloadDispatcher.best_match: 0 stands for NoMatchingOverloadException
FunctionBestMatch(signatures, args, kwargs) ==
    BestFrom(signatures, args, kwargs, 1, -1, 0)

\* BoundOverloadDispatcher.best_match: the instance is bound first
BoundBestMatch(instance, signatures, args, kwargs) ==
    BestFrom(signatures, <<instance>> \o args, kwargs, 1, -1, 0)

\* --------------------------------------------------------- conflict detector
NumDefaults(sig) == Cardinality({i \in 1..Len(sig) : HasDefault(sig[i])})

ParamNamed(sig, name) == sig[CHOOSE i \in 1..Len(sig) : sig[i].name = name]

\* the preventive arity check of _overlap_signature
ArityDisjoint(sig1, sig2) ==
    /\ Len(sig1) # Len(sig2)
    /\ Len(sig1) # Len(sig2) - NumDefaults(sig2)
    /\ Len(sig1) - NumDefaults(sig1) # Len(sig2)
    /\ Len(sig1) - NumDefaults(sig1) # Len(sig2) - NumDefaults(sig2)

Members(annotation) ==
    IF annotation.kind = "union" THEN annotation.args ELSE <<annotation>>

InTuple(p, params) == \E k \in 1..Len(params) : params[k] = p

\* one iteration of the parameter loop: FALSE when it returns False
ParamCompatible(param0, other0) ==
    LET a1 == Erase(param0.annotation)
        a2 == Erase(other0.annotation)
    IN IF IsWildcard(a1) \/ IsWildcard(a2) THEN TRUE
       ELSE IF a1.kind = "union" \/ a2.kind = "union"
            THEN LET m1 == Members(a1)
                     m2 == Members(a2)
                     params1 == IF Len(m1) > Len(m2) THEN m2 ELSE m1
                     params2 == IF Len(m1) > Len(m2) THEN m1 ELSE m2
                 IN \E k \in 1..Len(params1) : InTuple(params1[k], params2)
            ELSE a1 = a2

overlap_signature(sig1, sig2) ==
    IF ArityDisjoint(sig1, sig2) THEN FALSE
    ELSE \A i \in 1..Len(sig1) :
            (\E j \in 1..Len(sig2) : sig2[j].name = sig1[i].name)
                => ParamCompatible(sig1[i], ParamNamed(sig2, sig1[i].name))

\* -------------------------------------------------------------- catalogues
ModAB == <<"a", "b">>   \* module a.b
ModA == <<"a">>         \* module a (the package of a.b)

IntOrStr == Uni(<<Cls("int"), Cls("str")>>)

\* the overloads of one free function a.b.c, decorated with @overload
FnFuncs == {
    Func(1, ModAB, <<"c">>, <<P("x", Cls("int"))>>, "return"),
    Func(2, ModAB, <<"c">>, <<P("x", IntOrStr)>>, "return"),
    Func(3, ModAB, <<"c">>, <<P("x", Empty)>>, "return"),
    Func(4, ModAB, <<"c">>, <<P("x", Cls("int")), PD("y", Cls("int"), "int")>>, "return"),
    Func(5, ModAB, <<"c">>, <<VarPos("args", Cls("int"))>>, "return"),
    Func(6, ModAB, <<"c">>, <<VarPos("args", AnyHint)>>, "ValueError"),
    Func(7, ModAB, <<"c">>,
         <<P("x", Gen("list", "int")), P("y", Cls("str")), VarKw("kw", Cls("int"))>>,
         "TypeError"),
    Func(8, ModAB, <<"c">>, <<P("x", Empty), PD("y", Cls("int"), "int")>>, "return") }

\* decorated functions of several modules: a.b.c, the method c of class b in
\* module a, and a.c
ScopeFuncs == {
    Func(1, ModAB, <<"c">>, <<P("x", Cls("int"))>>, "return"),
    Func(3, ModAB, <<"c">>, <<P("x", Empty)>>, "return"),
    Func(21, ModA, <<"b", "c">>, <<P("x", Cls("str"))>>, "return"),
    Func(22, ModA, <<"c">>, <<P("x", Cls("int"))>>, "return") }

\* the methods the class bodies define under the name m
MFuncs == {
    Func(11, ModA, <<"K", "m">>, <<P("self", Empty), P("x", Cls("int"))>>, "return"),
    Func(12, ModA, <<"K", "m">>,
         <<P("self", Empty), P("x", Cls("str")), PD("y", Cls("str"), "str")>>,
         "ValueError"),
    Func(13, ModA, <<"K", "m">>, <<P("self", Empty), P("x", Empty)>>, "TypeError") }

\* the values that are not callable: None and the integer 5
Plain == {"None", "5"}
Names == {"m", "v"}

\* class Grand: ...; class Base(Grand, metaclass=OverloadMeta): ...;
\* class Sub(Base): ...   in the order their bodies run
Classes == <<"Grand", "Base", "Sub">>
Parent(cls) == IF cls = "Sub" THEN "Base" ELSE IF cls = "Base" THEN "Grand" ELSE "object"
\* the metaclass is OverloadMeta: __prepare__ hands the body an OverloadDict
Overloading(cls) == cls \in {"Base", "Sub"}

\* positional and keyword arguments of a call
RECURSIVE SeqsUpTo(_, _)
SeqsUpTo(S, n) ==
    IF n = 0 THEN {<<>>}
    ELSE LET shorter == SeqsUpTo(S, n - 1)
         IN shorter \cup {Append(q, v) : q \in {r \in shorter : Len(r) = n - 1}, v \in S}

ArgLists == SeqsUpTo(Vals, MaxArgs)
KwDicts == UNION {[D -> Vals] : D \in SUBSET KwNames}

\* -------------------------------------------------------------------- state
VARIABLES
    overload_functions, \* _overload_functions: name -> OverloadItem
    warnings,           \* the ConflictingOverloadWarning emitted so far, in order
    regLog,             \* history: the callables passed to overload(), in order
    pc,                 \* the caller: "idle", "dispatch" inside a bound call,
                        \* or "returned" holding an outcome
    outcome,            \* what the last operation gave its caller
    ns,                 \* the namespace of each class: attribute name -> value
    building,           \* position in Classes of the class whose body is running
    assigned,           \* number of class-body assignments run so far
    depth,              \* BoundOverloadDispatcher.__call__ frames on the stack
    cur                 \* the class whose registry the innermost dispatcher views

vars == <<overload_functions, warnings, regLog, pc, outcome,
          ns, building, assigned, depth, cur>>
classVars == <<ns, building, assigned, depth, cur>>

\* ran: what the body of the implementation that was invoked did, "none"
\* when no implementation was invoked
NoOutcome == [op |-> "none", key |-> <<>>, args |-> <<>>, kwargs |-> <<>>,
              sel |-> 0, ran |-> "none", kind |-> "none", val |-> "none"]

\* ------------------------------------------------------------- OverloadItem
\* OverloadItem.__init__
NewItem(func) ==
    [name |-> func.qualname[Len(func.qualname)],
     overloads |-> <<func>>,
     signatures |-> <<func.sig>>]

\* the existing signatures OverloadItem.append warns about
Collisions(item, func) ==
    {i \in 1..Len(item.signatures) : overlap_signature(func.sig, item.signatures[i])}

\* OverloadItem.append
AppendItem(item, func) ==
    [item EXCEPT !.overloads = Append(@, func),
                 !.signatures = Append(@, func.sig)]

WarningsOf(key, item, func) ==
    LET idx == SetToSeq(Collisions(item, func))
    IN [k \in 1..Len(idx) |->
          [key |-> key, new |-> Len(item.overloads) + 1, existing |-> idx[k]]]

\* f"{func.__module__}.{func.__qualname__}": the dotted path of both joined
KeyOf(func) == func.module \o func.qualname

\* what invoking a callable gives: its result (named by its id) or its error
Invoke(func) ==
    IF func.body = "return" THEN [kind |-> "return", val |-> ToString(func.id)]
    ELSE [kind |-> "raise", val |-> func.body]

\* ------------------------------------------------------------------ actions
\* @overload applied to func
Overload(func) ==
    /\ pc = "idle"
    /\ Len(regLog) < MaxRegs
    /\ LET name == KeyOf(func)
       IN IF name \notin DOMAIN overload_functions
          THEN /\ overload_functions' = overload_functions @@ (name :> NewItem(func))
               /\ UNCHANGED warnings
          ELSE /\ overload_functions' =
                     [overload_functions EXCEPT ![name] = AppendItem(@, func)]
               /\ warnings' = warnings \o WarningsOf(name, overload_functions[name], func)
    /\ regLog' = Append(regLog, func)
    /\ UNCHANGED <<pc, outcome>>
    /\ UNCHANGED classVars

\* OverloadItem.__call__: FunctionOverloadDispatcher(...)(*args, **kwargs)
Call(key, args, kwargs) ==
    /\ pc = "idle"
    /\ key \in DOMAIN overload_functions
    /\ LET item == overload_functions[key]
           sel == FunctionBestMatch(item.signatures, args, kwargs)
           res == IF sel = 0 THEN [kind |-> "raise", val |-> "NoMatchingOverload"]
                  ELSE Invoke(item.overloads[sel])
       IN outcome' = [op |-> "call", key |-> key, args |-> args, kwargs |-> kwargs,
                      sel |-> sel,
                      ran |-> IF sel = 0 THEN "none" ELSE item.overloads[sel].body,
                      kind |-> res.kind, val |-> res.val]
    /\ pc' = "returned"
    /\ UNCHANGED <<overload_functions, warnings, regLog>>
    /\ UNCHANGED classVars

\* OverloadItem.help: the docstring of the best match (named by its id)
Help(key, args, kwargs) ==
    /\ pc = "idle"
    /\ key \in DOMAIN overload_functions
    /\ LET item == overload_functions[key]
           sel == FunctionBestMatch(item.signatures, args, kwargs)
       IN outcome' = [op |-> "help", key |-> key, args |-> args, kwargs |-> kwargs,
                      sel |-> sel, ran |-> "none",
                      kind |-> IF sel = 0 THEN "raise" ELSE "return",
                      val |-> IF sel = 0 THEN "NoMatchingOverload"
                              ELSE ToString(item.overloads[sel].id)]
    /\ pc' = "returned"
    /\ UNCHANGED <<overload_functions, warnings, regLog>>
    /\ UNCHANGED classVars

\* the caller takes the result or the error and goes on
Resume ==
    /\ pc = "returned"
    /\ pc' = "idle"
    /\ outcome' = NoOutcome
    /\ UNCHANGED <<overload_functions, warnings, regLog>>
    /\ UNCHANGED classVars

Init ==
    /\ overload_functions = <<>>
    /\ warnings = <<>>
    /\ regLog = <<>>
    /\ pc = "idle"
    /\ outcome = NoOutcome
    /\ ns = [cls \in {"Grand", "Base", "Sub"} |-> <<>>]
    /\ building = 1
    /\ assigned = 0
    /\ depth = 0
    /\ cur = "object"

Next ==
    \/ \E func \in FnFuncs : Overload(func)
    \/ \E key \in DOMAIN overload_functions, args \in ArgLists, kwargs \in KwDicts :
          Call(key, args, kwargs)
    \/ \E key \in DOMAIN overload_functions, args \in ArgLists, kwargs \in KwDicts :
          Help(key, args, kwargs)
    \/ Resume

Spec == Init /\ [][Next]_vars

\* ------------------------------------------------------------ class bodies
NoFunc == Func(0, <<>>, <<>>, <<>>, "none")
NoItem == [name |-> "", overloads |-> <<>>, signatures |-> <<>>]

\* the values a namespace holds: a non-callable value, a function, an OverloadItem
PlainVal(v) == [tag |-> "plain", v |-> v, func |-> NoFunc, item |-> NoItem]
FuncVal(f) == [tag |-> "func", v |-> "", func |-> f, item |-> NoItem]
ItemVal(it) == [tag |-> "item", v |-> "", func |-> NoFunc, item |-> it]

\* dict.__setitem__
Store(dict, key, value) ==
    [k \in DOMAIN dict \cup {key} |-> IF k = key THEN value ELSE dict[k]]

\* dict.get(key, None)
Get(dict, key) == IF key \in DOMAIN dict THEN dict[key] ELSE PlainVal("None")

Building == Classes[building]
Done == Len(Classes) + 1

\* OverloadDict.__setitem__(key, value) with a value that is not callable
SetItemPlain(key, v) ==
    /\ pc = "idle"
    /\ building <= Len(Classes) /\ Overloading(Building)
    /\ assigned < MaxRegs
    /\ ns' = [ns EXCEPT ![Building] = Store(@, key, PlainVal(v))]
    /\ assigned' = assigned + 1
    /\ UNCHANGED <<overload_functions, warnings, regLog, pc, outcome, building, depth, cur>>

\* OverloadDict.__setitem__(key, value) with a callable value
SetItemFunc(key, func) ==
    /\ pc = "idle"
    /\ building <= Len(Classes) /\ Overloading(Building)
    /\ assigned < MaxRegs
    /\ assigned' = assigned + 1
    /\ LET current_value == Get(ns[Building], key)
       IN IF current_value = PlainVal("None")
          THEN /\ ns' = [ns EXCEPT ![Building] = Store(@, key, ItemVal(NewItem(func)))]
               /\ regLog' = Append(regLog, func)
               /\ UNCHANGED <<warnings, pc, outcome, building>>
          ELSE IF current_value.tag = "item"
          THEN /\ ns' = [ns EXCEPT ![Building] =
                            Store(@, key, ItemVal(AppendItem(current_value.item, func)))]
               /\ warnings' = warnings \o
                     WarningsOf(<<Building, key>>, current_value.item, func)
               /\ regLog' = Append(regLog, func)
               /\ UNCHANGED <<pc, outcome, building>>
          ELSE \* raise TypeError: the class statement fails
               /\ outcome' = [NoOutcome EXCEPT !.op = "setitem",
                                               !.key = <<Building, key>>,
                                               !.kind = "raise",
                                               !.val = "TypeError"]
               /\ pc' = "returned"
               /\ building' = Done
               /\ UNCHANGED <<ns, warnings, regLog>>
    /\ UNCHANGED <<overload_functions, depth, cur>>

\* an assignment in the body of a class whose namespace is an ordinary dict
DictSetItem(key, value) ==
    /\ pc = "idle"
    /\ building <= Len(Classes) /\ ~Overloading(Building)
    /\ assigned < MaxRegs
    /\ ns' = [ns EXCEPT ![Building] = Store(@, key, value)]
    /\ assigned' = assigned + 1
    /\ UNCHANGED <<overload_functions, warnings, regLog, pc, outcome, building, depth, cur>>

\* OverloadMeta.__new__ (type.__new__ for an ordinary class): the class exists
EndClass ==
    /\ pc = "idle"
    /\ building <= Len(Classes)
    /\ building' = building + 1
    /\ UNCHANGED <<overload_functions, warnings, regLog, pc, outcome, ns, assigned, depth, cur>>

\* ------------------------------------------------------------ bound dispatch
Created(cls) == \E i \in 1..Len(Classes) : Classes[i] = cls /\ i < building

RECURSIVE FindFrom(_, _)
\* attribute lookup along the MRO starting at cls: the class that defines
\* name, "object" when none does
FindFrom(cls, name) ==
    IF cls = "object" THEN "object"
    ELSE IF name \in DOMAIN ns[cls] THEN cls
    ELSE FindFrom(Parent(cls), name)

\* the instance, as the value bound to self
Instance == "obj"

NoMatching == [kind |-> "raise", val |-> "NoMatchingOverload"]

\* OverloadItem.__get__: instance.name gives a BoundOverloadDispatcher over
\* the registry found on the MRO of type(instance), with owner_cls = type(instance)
BoundCall(cls, name, args, kwargs) ==
    /\ pc = "idle"
    /\ Created(cls)
    /\ FindFrom(cls, name) # "object"
    /\ ns[FindFrom(cls, name)][name].tag = "item"
    /\ pc' = "dispatch"
    /\ depth' = 1
    /\ cur' = FindFrom(cls, name)
    /\ outcome' = [NoOutcome EXCEPT !.op = "bound", !.key = <<cls, name>>,
                                    !.args = args, !.kwargs = kwargs]
    /\ UNCHANGED <<overload_functions, warnings, regLog, ns, building, assigned>>

\* an error leaving frame d passes the except TypeError clause of every
\* enclosing frame: there a TypeError becomes NoMatchingOverloadException
Escape(res, d) ==
    IF d >= 2 /\ res.kind = "raise" /\ res.val = "TypeError" THEN NoMatching ELSE res

\* super_call(*args, **kwargs) inside try ... except TypeError, for a
\* super_call that is not an OverloadItem dispatcher
SuperCall(value, args, kwargs) ==
    IF value.tag = "plain" THEN NoMatching          \* not callable: TypeError
    ELSE IF BindFails(value.func.sig, <<Instance>> \o args, kwargs) THEN NoMatching
    ELSE IF value.func.body = "TypeError" THEN NoMatching
    ELSE Invoke(value.func)

\* the outcome is handed to the caller of the outermost frame
Finish(res, sel, ran) ==
    /\ outcome' = [outcome EXCEPT !.sel = sel, !.ran = ran,
                                  !.kind = res.kind, !.val = res.val]
    /\ pc' = "returned"
    /\ depth' = 0
    /\ cur' = "object"

\* BoundOverloadDispatcher.__call__, one frame
Dispatch ==
    /\ pc = "dispatch"
    /\ LET cls == outcome.key[1]
           name == outcome.key[2]
           item == ns[cur][name].item
           sel == BoundBestMatch(Instance, item.signatures, outcome.args, outcome.kwargs)
           \* super(self.owner_cls, self.instance), owner_cls being type(instance)
           anc == FindFrom(Parent(cls), name)
       IN IF sel # 0
          THEN Finish(Escape(Invoke(item.overloads[sel]), depth),
                      IF depth = 1 THEN sel ELSE 0, item.overloads[sel].body)
          ELSE IF anc = "object" \/ ns[anc][name] = PlainVal("None")
          THEN Finish(NoMatching, 0, "none")
          ELSE IF ns[anc][name].tag = "item"
          THEN IF depth >= MaxDepth
               THEN Finish([kind |-> "raise", val |-> "RecursionError"], 0, "none")
               ELSE /\ depth' = depth + 1
                    /\ cur' = anc
                    /\ UNCHANGED <<pc, outcome>>
          ELSE Finish(SuperCall(ns[anc][name], outcome.args, outcome.kwargs), 0,
                      IF ns[anc][name].tag = "func"
                         /\ ~BindFails(ns[anc][name].func.sig,
                                       <<Instance>> \o outcome.args, outcome.kwargs)
                      THEN ns[anc][name].func.body ELSE "none")
    /\ UNCHANGED <<overload_functions, warnings, regLog, ns, building, assigned>>

NextClass ==
    \/ \E key \in Names, v \in Plain : SetItemPlain(key, v)
    \/ \E func \in MFuncs : SetItemFunc("m", func)
    \/ \E v \in Plain : DictSetItem("m", PlainVal(v))
    \/ \E func \in MFuncs : DictSetItem("m", FuncVal(func))
    \/ EndClass
    \/ \E cls \in {"Base", "Sub"}, args \in ArgLists, kwargs \in KwDicts :
          BoundCall(cls, "m", args, kwargs)
    \/ Dispatch
    \/ Resume

SpecClass == Init /\ [][NextClass]_vars

\* the same surface, decorating functions of several modules
NextScope ==
    \/ \E func \in ScopeFuncs : Overload(func)
    \/ \E key \in DOMAIN overload_functions, args \in ArgLists, kwargs \in KwDicts :
          Call(key, args, kwargs)
    \/ \E key \in DOMAIN overload_functions, args \in ArgLists, kwargs \in KwDicts :
          Help(key, args, kwargs)
    \/ Resume

SpecScope == Init /\ [][NextScope]_vars

\* ================================================================== claims
\* the registry the outcome in hand came from, and its candidates
Item == overload_functions[outcome.key]
Cands == 1..Len(Item.signatures)
Score(i) == CandidateScore(Item.signatures[i], outcome.args, outcome.kwargs)
Binds(i) == ~BindFails(Item.signatures[i], outcome.args, outcome.kwargs)
Bound(i) == BoundArgs(Item.signatures[i], outcome.args, outcome.kwargs)
Dispatched == pc = "returned" /\ outcome.op \in {"call", "help"}

\* what the caller gets when candidate i is the one dispatched to
Delivered(i) ==
    IF outcome.op = "help"
    THEN [kind |-> "return", val |-> ToString(Item.overloads[i].id)]
    ELSE Invoke(Item.overloads[i])

\* the earliest-registered candidate among those with the highest score
IsEarliestBest(i) ==
    /\ Score(i) >= 0
    /\ \A j \in Cands : Score(j) <= Score(i)
    /\ \A j \in Cands : j < i => Score(j) < Score(i)

C2_NoMatchIffNoCandidate ==
    Dispatched =>
        LET none == \A i \in Cands : Score(i) < 0
        IN /\ none <=> (outcome.kind = "raise" /\ outcome.val = "NoMatchingOverload")
           /\ none <=> outcome.sel = 0
           /\ ~none => /\ outcome.sel \in Cands
                       /\ Binds(outcome.sel)
                       /\ Score(outcome.sel) >= 0
                       /\ outcome.kind = Delivered(outcome.sel).kind
                       /\ outcome.val = Delivered(outcome.sel).val

\* C2 witness: a candidate whose every constraint is a wildcard is selected
\* with score 0 while another candidate failed to bind
C2_Witness ==
    /\ Dispatched /\ outcome.op = "call"
    /\ outcome.sel \in Cands
    /\ Score(outcome.sel) = 0
    /\ \A k \in 1..Len(Item.signatures[outcome.sel]) :
          IsWildcard(Item.signatures[outcome.sel][k].annotation)
    /\ \E j \in Cands : ~Binds(j)

\* a value bound to parameter k of candidate i fails the declared constraint
SomeValueFails(i) ==
    \E k \in 1..Len(Item.signatures[i]) :
       \E n \in 1..Len(Bound(i)[k]) :
          score_type_hint(Bound(i)[k][n], Item.signatures[i][k].annotation) < 0

\* C5: a candidate that binds and has any one bound value failing its
\* constraint (a plain argument, a default, one extra positional or keyword
\* value) scores REJECT and is never the one selected.
C5_AnyRejectDominates ==
    Dispatched =>
        \A i \in Cands : (Binds(i) /\ SomeValueFails(i)) =>
            (Score(i) = -1 /\ outcome.sel # i)

\* C8: when more than one overload matches the arguments, dispatch uses the
\* first-registered overload that matches.
C8_FirstMatchingOverloadUsed ==
    (Dispatched /\ Cardinality({i \in Cands : Score(i) >= 0}) > 1) =>
        /\ outcome.sel \in Cands
        /\ Score(outcome.sel) >= 0
        /\ \A j \in Cands : j < outcome.sel => Score(j) < 0

\* sigC and sigW are the same signature except that in exactly one parameter
\* k sigC declares a constraint where sigW declares a wildcard
DifferAt(sigC, sigW, k) ==
    /\ Len(sigC) = Len(sigW)
    /\ k \in 1..Len(sigC)
    /\ ~IsWildcard(sigC[k].annotation) /\ IsWildcard(sigW[k].annotation)
    /\ \A n \in 1..Len(sigC) :
          /\ sigC[n].name = sigW[n].name
          /\ sigC[n].kind = sigW[n].kind
          /\ sigC[n].default = sigW[n].default
          /\ n # k => sigC[n].annotation = sigW[n].annotation

\* candidate c is the concretely typed twin of the wildcard candidate w
Twins(c, w, k) == c # w /\ DifferAt(Item.signatures[c], Item.signatures[w], k)

\* every value the call gives parameter k of candidate c satisfies its constraint
AllSatisfy(c, k) ==
    /\ Len(Bound(c)[k]) >= 1
    /\ \A n \in 1..Len(Bound(c)[k]) :
          score_type_hint(Bound(c)[k][n], Item.signatures[c][k].annotation) > 0

\* a wildcard parameter adds 0 to the score of a candidate that binds
WildcardsScoreZero ==
    \A i \in Cands : Binds(i) =>
        \A k \in 1..Len(Item.signatures[i]) :
            IsWildcard(Item.signatures[i][k].annotation) =>
                score_any_type_hint(Bound(i)[k], Item.signatures[i][k]) = 0

RangeLo(sig) == Len(sig) - NumDefaults(sig)
Variadic(sig) == HasKind(sig, "varpos") \/ HasKind(sig, "varkw")
RangesIntersect(sig1, sig2) ==
    /\ Variadic(sig2) \/ RangeLo(sig1) <= Len(sig2)
    /\ Variadic(sig1) \/ RangeLo(sig2) <= Len(sig1)

MemberSet(annotation) ==
    LET a == Erase(annotation)
    IN IF a.kind = "union" THEN {a.args[k] : k \in 1..Len(a.args)} ELSE {a}

ShareMember(a1, a2) ==
    IsWildcard(a1) \/ IsWildcard(a2) \/ MemberSet(a1) \cap MemberSet(a2) # {}

CanCollide(sig1, sig2) ==
    /\ RangesIntersect(sig1, sig2)
    /\ \A i \in 1..Len(sig1), j \in 1..Len(sig2) :
          sig1[i].name = sig2[j].name =>
              ShareMember(sig1[i].annotation, sig2[j].annotation)

\* the existing candidates the registration of candidate n of key warned about
WarnedAgainst(key, n) ==
    {warnings[k].existing :
        k \in {m \in 1..Len(warnings) : warnings[m].key = key /\ warnings[m].new = n}}

\* C4: registration warns against exactly the already-registered candidates
\* whose parameter-count range intersects the new one's and whose constraints
\* share a member type (or are wildcard) on every common parameter name.
C4_WarnsOnEveryOverlap ==
    \A key \in DOMAIN overload_functions :
        \A n \in 1..Len(overload_functions[key].signatures) :
            WarnedAgainst(key, n) =
                {i \in 1..(n - 1) :
                    CanCollide(overload_functions[key].signatures[n],
                               overload_functions[key].signatures[i])}

\* the callables registered so far under module m and qualified name q
RegisteredUnder(m, q) ==
    LET Here(f) == f.module = m /\ f.qualname = q
    IN SelectSeq(regLog, Here)

\* C10: the registry of a module and qualified name holds exactly the
\* callables registered under them, in order, callables and signatures
\* aligned; registrations under another module and qualified name never
\* land in it.
C10_RegistryHoldsExactlyItsRegistrations ==
    \A n \in 1..Len(regLog) :
        LET f == regLog[n]
            item == overload_functions[KeyOf(f)]
        IN /\ item.overloads = RegisteredUnder(f.module, f.qualname)
           /\ Len(item.signatures) = Len(item.overloads)
           /\ \A i \in 1..Len(item.overloads) :
                 item.signatures[i] = item.overloads[i].sig

\* ------------------------------------------------- claims on class bodies
BoundDone == pc = "returned" /\ outcome.op = "bound"
InstCls == outcome.key[1]
MName == outcome.key[2]
CallArgs == <<Instance>> \o outcome.args

\* the class declaring the overloads the instance's attribute resolves to
LocalCls == FindFrom(InstCls, MName)
LocalItem == ns[LocalCls][MName].item
LocalFails ==
    \A i \in 1..Len(LocalItem.signatures) :
        CandidateScore(LocalItem.signatures[i], CallArgs, outcome.kwargs) < 0

\* the same-named attribute of the nearest ancestor of the declaring class
AncCls == FindFrom(Parent(LocalCls), MName)
AncVal == ns[AncCls][MName]

AncBest ==
    CHOOSE i \in 1..Len(AncVal.item.signatures) :
        /\ CandidateScore(AncVal.item.signatures[i], CallArgs, outcome.kwargs) >= 0
        /\ \A j \in 1..Len(AncVal.item.signatures) :
              LET sj == CandidateScore(AncVal.item.signatures[j], CallArgs, outcome.kwargs)
                  si == CandidateScore(AncVal.item.signatures[i], CallArgs, outcome.kwargs)
              IN sj <= si /\ (j < i => sj < si)

\* the ancestor implementation the arguments reach, NoFunc when the ancestor
\* defines no callable that accepts them
AncImpl ==
    IF AncCls = "object" THEN NoFunc
    ELSE IF AncVal.tag = "func"
         THEN (IF BindFails(AncVal.func.sig, CallArgs, outcome.kwargs)
               THEN NoFunc ELSE AncVal.func)
    ELSE IF AncVal.tag = "item"
         THEN (IF \E i \in 1..Len(AncVal.item.signatures) :
                     CandidateScore(AncVal.item.signatures[i], CallArgs, outcome.kwargs) >= 0
               THEN AncVal.item.overloads[AncBest] ELSE NoFunc)
    ELSE NoFunc

\* C3: when no local candidate matches, bound dispatch on an instance of the
\* declaring class or of a subclass returns the result of the ancestor
\* implementation that accepts the arguments, and raises NoMatchingOverload,
\* no other error, when the ancestor rejects them too.
C3_FallbackResultOrNoMatch ==
    (BoundDone /\ LocalFails) =>
        IF AncImpl = NoFunc
        THEN outcome.kind = "raise" /\ outcome.val = "NoMatchingOverload"
        ELSE AncImpl.body = "return" =>
                (outcome.kind = "return" /\ outcome.val = ToString(AncImpl.id))

\* C7: an error raised by the body of the implementation dispatch invokes
\* (the local winner, or the ancestor reached by fallback) reaches the caller
\* as that same error.
C7_BodyErrorsPropagateUnchanged ==
    (pc = "returned" /\ outcome.op \in {"call", "bound"}) =>
        /\ outcome.ran = "return" => outcome.kind = "return"
        /\ outcome.ran \in {"TypeError", "ValueError"} =>
              (outcome.kind = "raise" /\ outcome.val = outcome.ran)

HoldsRegistry(cls, key) == key \in DOMAIN ns[cls] /\ ns[cls][key].tag = "item"

IsPrefix(s1, s2) == Len(s1) <= Len(s2) /\ SubSeq(s2, 1, Len(s1)) = s1

\* C6: a name of a merged class-body namespace that holds a Registry keeps
\* it: a non-callable assigned to the name is refused and leaves the Registry
\* in place, a callable is appended to the same Registry.
C6_RegistryStaysInPlace ==
    [][\A cls \in {"Grand", "Base", "Sub"}, key \in Names :
          HoldsRegistry(cls, key) =>
              /\ HoldsRegistry(cls, key)'
              /\ IsPrefix(ns[cls][key].item.overloads, ns'[cls][key].item.overloads)]_vars

\* position of a class on the inheritance chain, object being the end of it
MroIndex(cls) ==
    IF cls = "object" THEN Len(Classes) + 1
    ELSE CHOOSE i \in 1..Len(Classes) : Classes[Len(Classes) + 1 - i] = cls

\* C11: every bound dispatch call terminates: a fallback step moves to a
\* registry strictly further along the inheritance chain than the registry
\* that just failed, so the chain is exhausted and the call never ends by
\* running out of call depth.
C11_FallbackAdvancesAlongChain ==
    [][/\ (pc = "dispatch" /\ pc' = "dispatch") => MroIndex(cur') > MroIndex(cur)
       /\ (pc = "dispatch" /\ pc' = "returned") => outcome'.val # "RecursionError"]_vars
====
